---- MODULE Spec2Model ----
(***************************************************************************)
(* A model of src/src/forecast.py: the monthly passenger forecast.         *)
(*                                                                         *)
(* The module's functions are modelled as operators that compute what the  *)
(* Python computes.  A state is one call of one function of the module:    *)
(* `call` holds the function and its arguments, `pc` the position inside   *)
(* it, `result` what it returned or raised.  run() is followed stage by    *)
(* stage (directories, load, fit, save, one step per chart) because what   *)
(* is on disk when it fails depends on the stage.                          *)
(*                                                                         *)
(* Numbers: counts are integers; intercept, slope, r2 and the projected    *)
(* values are exact rationals [num, den] (den > 0), so the arithmetic is   *)
(* that of the reals, not of IEEE doubles.  NaN is the record with den 0.  *)
(* Text (file names, cell texts, column names) is a tuple of characters or *)
(* tokens, so that parsing is computed and not assumed.                    *)
(***************************************************************************)
EXTENDS Integers, Sequences, FiniteSets, TLC

VARIABLES call, pc, fs, norm_years, frames, df_long, summary_df, detail, plotted, result

vars == <<call, pc, fs, norm_years, frames, df_long, summary_df, detail, plotted, result>>

(***************************************************************************)
(* Bounds of the model.                                                    *)
(***************************************************************************)
MaxSources == 2
MaxHorizon == 2
MaxNameLen == 5

(***************************************************************************)
(* Generic helpers.                                                        *)
(***************************************************************************)
Range(s) == {s[i] : i \in 1..Len(s)}

SeqsUpTo(S, n) == UNION {[1..k -> S] : k \in 0..n}

Min(S) == CHOOSE i \in S : \A j \in S : i <= j

\* The sequence f as a tuple.
Tuple(f) == f \o <<>>

\* Optional[...] is a tuple of length 0 (None) or 1.
Some(x) == <<x>>

IsNone(o) == Len(o) = 0

RECURSIVE SelectIdx(_, _, _)
\* the indices i of i..n, ascending, for which keep[i]
SelectIdx(keep, i, n) ==
    IF i > n THEN <<>>
    ELSE (IF keep[i] THEN <<i>> ELSE <<>>) \o SelectIdx(keep, i + 1, n)

\* Stable insertion of index x into the index sequence s, sorted by key.
RECURSIVE InsertSorted(_, _, _)
InsertSorted(x, s, key) ==
    IF s = <<>> THEN <<x>>
    ELSE IF key[x] < key[Head(s)] THEN <<x>> \o s
    ELSE <<Head(s)>> \o InsertSorted(x, Tail(s), key)

RECURSIVE SortedIdx(_, _)
SortedIdx(n, key) ==
    IF n = 0 THEN <<>> ELSE InsertSorted(n, SortedIdx(n - 1, key), key)

Permute(s, idx) == Tuple([i \in 1..Len(s) |-> s[idx[i]]])

\* s sorted ascending by the integer keys key[1..Len(s)]; a stable sort:
\* equal keys keep their order of arrival.
SortByKey(s, key) == Permute(s, SortedIdx(Len(s), key))

(***************************************************************************)
(* Exact rational arithmetic for the floats of the program.                *)
(***************************************************************************)
RECURSIVE GCD(_, _)
GCD(a, b) == IF b = 0 THEN a ELSE GCD(b, a % b)

Abs(n) == IF n < 0 THEN -n ELSE n

Reduce(n, d, g) == [num |-> n \div g, den |-> d \div g]

Rat(n, d) == IF d < 0 THEN Reduce(-n, -d, GCD(Abs(n), Abs(d)))
             ELSE Reduce(n, d, GCD(Abs(n), Abs(d)))

R(n) == [num |-> n, den |-> 1]

NaN == [num |-> 0, den |-> 0]

IsNaN(x) == x.den = 0

RAdd(x, y) == Rat(x.num * y.den + y.num * x.den, x.den * y.den)
RSub(x, y) == Rat(x.num * y.den - y.num * x.den, x.den * y.den)
RMul(x, y) == Rat(x.num * y.num, x.den * y.den)
RDiv(x, y) == Rat(x.num * y.den, x.den * y.num)
RLt(x, y) == x.num * y.den < y.num * x.den
RAbs(x) == [num |-> Abs(x.num), den |-> x.den]
RMax(x, y) == IF RLt(x, y) THEN y ELSE x
RSq(x) == RMul(x, x)

RECURSIVE RSum(_)
RSum(s) == IF s = <<>> THEN R(0) ELSE RAdd(Head(s), RSum(Tail(s)))

(***************************************************************************)
(* Program constants.                                                      *)
(***************************************************************************)
INDO_MONTHS ==
    << "Januari", "Februari", "Maret", "April", "Mei", "Juni", "Juli",
       "Agustus", "September", "Oktober", "November", "Desember" >>

NEXT_MONTHS_MAP ==
    << "Jan", "Feb", "Mar", "Apr", "Mei", "Jun", "Jul", "Agu", "Sep", "Okt",
       "Nov", "Des" >>

MinYear == 1900
MaxYear == 2100

Digits == << "0", "1", "2", "3", "4", "5", "6", "7", "8", "9" >>

IsDigit(c) == c \in Range(Digits)

DigitVal(c) == (CHOOSE i \in 1..10 : Digits[i] = c) - 1

RECURSIVE DigitsValue(_)
\* int() of a run of digits
DigitsValue(cs) ==
    IF cs = <<>> THEN 0
    ELSE 10 * DigitsValue(SubSeq(cs, 1, Len(cs) - 1)) + DigitVal(cs[Len(cs)])

(***************************************************************************)
(* Results: what a call returns or raises.                                 *)
(***************************************************************************)
Ok(v) == [kind |-> "value", value |-> v]

Raise(type, msg, source) ==
    [kind |-> "error", type |-> type, msg |-> msg, source |-> source]

NoResult == [kind |-> "none"]

(***************************************************************************)
(* infer_year_from_filename                                                *)
(***************************************************************************)
LastSlash(path, slashes) ==
    IF slashes = {} THEN 0 ELSE CHOOSE i \in slashes : \A j \in slashes : j <= i

\* os.path.basename: what follows the last "/".
basename(path) ==
    SubSeq(path, LastSlash(path, {i \in 1..Len(path) : path[i] = "/"}) + 1, Len(path))

\* The pattern 20\d{2} matches base at position i.
YearPatternAt(base, i) ==
    /\ i + 3 <= Len(base)
    /\ base[i] = "2"
    /\ base[i + 1] = "0"
    /\ IsDigit(base[i + 2])
    /\ IsDigit(base[i + 3])

\* lines 135-138: the matched text as a year, kept when within range
YearInRange(y) == IF MinYear <= y /\ y <= MaxYear THEN Some(y) ELSE <<>>

\* re.search: the leftmost match
search_year(base, hits) ==
    IF hits = {} THEN <<>>
    ELSE YearInRange(DigitsValue(SubSeq(base, Min(hits), Min(hits) + 3)))

year_in_name(base) ==
    search_year(base, {i \in 1..Len(base) : YearPatternAt(base, i)})

infer_year_from_filename(path) == year_in_name(basename(path))

(***************************************************************************)
(* _normalize_years_for_inputs                                             *)
(***************************************************************************)
\* lines 158-162: the explicit year of position i
explicit_year(years, i) ==
    IF IsNone(years) THEN <<>>
    ELSE IF Len(years[1]) = 1 THEN Some(years[1][1])
    ELSE IF i <= Len(years[1]) THEN Some(years[1][i])
    ELSE <<>>

OrElse(y, other) == IF IsNone(y) THEN other ELSE y

\* year_for_input with the fallback year consulted before the name; the
\* precedence of C2 tells the two apart.
year_for_input_fallback_first(paths, years, default_year, i) ==
    OrElse(OrElse(explicit_year(years, i), default_year),
           infer_year_from_filename(paths[i]))

\* lines 157-166: the year of the source at position i, None when none of
\* the three mechanisms yields one
year_for_input(paths, years, default_year, i) ==
    OrElse(OrElse(explicit_year(years, i), infer_year_from_filename(paths[i])),
           default_year)

\* lines 167-172: the loop raises at the first source without a year
years_or_error(paths, ys, bad) ==
    IF bad # {}
    THEN Raise("ValueError", "Tidak bisa menentukan tahun untuk file", paths[Min(bad)])
    ELSE Ok(Tuple([i \in 1..Len(paths) |-> ys[i][1]]))

resolved_years(paths, ys) ==
    years_or_error(paths, ys, {i \in 1..Len(paths) : IsNone(ys[i])})

_normalize_years_for_inputs(paths, years, default_year) ==
    resolved_years(paths,
        Tuple([i \in 1..Len(paths) |-> year_for_input(paths, years, default_year, i)]))

(***************************************************************************)
(* _classify_direction                                                     *)
(***************************************************************************)
tolerance(last_actual) == RMax(RMul(Rat(5, 1000), RAbs(last_actual)), R(10))

\* direction_within with the comparisons made inclusive; the boundary cases
\* of C4 tell the two apart.
direction_inclusive(last_actual, next_pred, tol) ==
    IF ~RLt(next_pred, RAdd(last_actual, tol)) THEN "naik"
    ELSE IF ~RLt(RSub(last_actual, tol), next_pred) THEN "turun"
    ELSE "tetap"

direction_within(last_actual, next_pred, tol) ==
    IF RLt(RAdd(last_actual, tol), next_pred) THEN "naik"
    ELSE IF RLt(next_pred, RSub(last_actual, tol)) THEN "turun"
    ELSE "tetap"

_classify_direction(last_actual, next_pred) ==
    IF IsNaN(last_actual) \/ IsNaN(next_pred) THEN "tidak diketahui"
    ELSE direction_within(last_actual, next_pred, tolerance(last_actual))

(***************************************************************************)
(* load_and_transform                                                      *)
(*                                                                         *)
(* A source is [path, table]: the file's name and what read_csv gives for  *)
(* it.  A table is [columns, rows]; a column name is a tuple of tokens (a  *)
(* word, a blank SP or the byte-order mark BOM); a row is the tuple of its *)
(* cells, the first one the category (a string), the others the cell text  *)
(* as a tuple of characters (<<>> for an empty cell).  Column names are    *)
(* distinct after cleaning, as read_csv makes them.  The year is one       *)
(* pandas can hold in a Timestamp, so no date is missing.                  *)
(***************************************************************************)
BOM == "U+FEFF"
SP == " "

RECURSIVE lstrip(_)
lstrip(s) == IF s # <<>> /\ Head(s) = SP THEN lstrip(Tail(s)) ELSE s

RECURSIVE rstrip(_)
rstrip(s) ==
    IF s # <<>> /\ s[Len(s)] = SP THEN rstrip(SubSeq(s, 1, Len(s) - 1)) ELSE s

Pick(s, idx) == Tuple([i \in 1..Len(idx) |-> s[idx[i]]])

\* col.replace(BOM, "").strip()
_strip_bom_and_clean(col) ==
    rstrip(lstrip(Pick(col, SelectIdx(Tuple([i \in 1..Len(col) |-> col[i] # BOM]),
                                      1, Len(col)))))

\* str.lower() on the words column names are made of.
lower(w) ==
    CASE w = "Tahunan" -> "tahunan"
      [] w = "TAHUNAN" -> "tahunan"
      [] w = "Kategori" -> "kategori"
      [] w = "Lainnya" -> "lainnya"
      [] w = "Januari" -> "januari"
      [] w = "Februari" -> "februari"
      [] w = "Mei" -> "mei"
      [] w = "Desember" -> "desember"
      [] OTHER -> w

signed_value(neg, body) ==
    IF body # <<>> /\ \A i \in 1..Len(body) : IsDigit(body[i])
    THEN R(IF neg THEN -DigitsValue(body) ELSE DigitsValue(body))
    ELSE NaN

\* pd.to_numeric(..., errors="coerce") on a cell: an optionally signed run
\* of digits is its value, an empty cell or any other text is NaN.
to_numeric(cell) ==
    IF cell # <<>> /\ Head(cell) = "-" THEN signed_value(TRUE, Tail(cell))
    ELSE signed_value(FALSE, cell)

\* The ascending order of str on the category names of the model.
CategoryOrder == << "Jawa", "Sumatera", "Total" >>

CatRank(c) == CHOOSE i \in 1..Len(CategoryOrder) : CategoryOrder[i] = c

\* month_map, line 110
month_map(m) == CHOOSE i \in 1..12 : INDO_MONTHS[i] = m

DateKey(d) == d[1] * 12 + d[2]

\* line 86: the first column becomes tipe_kendaraan
rename_first(cleaned) ==
    Tuple([j \in 1..Len(cleaned) |->
        IF cleaned[j] = cleaned[1] THEN <<"tipe_kendaraan">> ELSE cleaned[j]])

\* line 89: the month names that are columns, in the order of INDO_MONTHS
month_columns(names) ==
    Pick(INDO_MONTHS, SelectIdx(Tuple([i \in 1..12 |-> <<INDO_MONTHS[i]>> \in names]), 1, 12))

\* lines 94-96: the columns named "tahunan" in any case are dropped (their
\* name is blanked, so that nothing reads them)
drop_tahunan(columns) ==
    Tuple([j \in 1..Len(columns) |->
        IF Len(columns[j]) = 1 /\ lower(columns[j][1]) = "tahunan" THEN <<>>
        ELSE columns[j]])

melt_block(rows, bulan_kolom, colOf, nr) ==
    Tuple([k \in 1..(Len(bulan_kolom) * nr) |->
        [tipe_kendaraan |-> rows[((k - 1) % nr) + 1][1],
         bulan |-> bulan_kolom[((k - 1) \div nr) + 1],
         jumlah |-> rows[((k - 1) % nr) + 1][colOf[((k - 1) \div nr) + 1]]]])

\* df.melt(id_vars, value_vars=bulan_kolom), lines 99-104: one block of
\* rows per month column, in the order of bulan_kolom, each block in the
\* order of the rows.
melt(columns, rows, bulan_kolom) ==
    melt_block(rows, bulan_kolom,
               Tuple([i \in 1..Len(bulan_kolom) |->
                   CHOOSE j \in 1..Len(columns) : columns[j] = <<bulan_kolom[i]>>]),
               Len(rows))

\* lines 107-116: jumlah as a number, month_num and tanggal
long_row(bulan, m, tipe, jumlah, year) ==
    [tipe_kendaraan |-> tipe, bulan |-> bulan, month_num |-> m,
     tanggal |-> <<year, m>>, jumlah |-> jumlah]

to_long(melted, year) ==
    Tuple([k \in 1..Len(melted) |->
        long_row(melted[k].bulan, month_map(melted[k].bulan),
                 melted[k].tipe_kendaraan, to_numeric(melted[k].jumlah), year)])

\* dropna that drops nothing; C8 tells the two apart.
keep_missing(long_df) == long_df

\* line 119: dropna; month_num and tanggal are never missing here
dropna(long_df) ==
    Pick(long_df, SelectIdx(Tuple([k \in 1..Len(long_df) |-> ~IsNaN(long_df[k].jumlah)]),
                            1, Len(long_df)))

\* lines 122-124: sort_values(["tipe_kendaraan", "month_num"])
sort_by_month(df) ==
    SortByKey(df, Tuple([k \in 1..Len(df) |->
                    CatRank(df[k].tipe_kendaraan) * 100 + df[k].month_num]))

\* lines 89-125
load_months(columns, rows, bulan_kolom, year) ==
    IF Len(bulan_kolom) = 0
    THEN Raise("ValueError", "Tidak ditemukan kolom bulan (Januari..Desember) dalam CSV.", <<>>)
    ELSE Ok(sort_by_month(dropna(to_long(
                melt(drop_tahunan(columns), rows, bulan_kolom), year))))

load_renamed(columns, rows, year) ==
    load_months(columns, rows, month_columns(Range(columns)), year)

\* lines 81-86
load_cleaned(cleaned, rows, year) ==
    IF Len(cleaned) < 2
    THEN Raise("ValueError", "CSV tidak memiliki format yang diharapkan (minimal 2 kolom).", <<>>)
    ELSE load_renamed(rename_first(cleaned), rows, year)

load_and_transform(input, year) ==
    load_cleaned(Tuple([j \in 1..Len(input.table.columns) |->
                     _strip_bom_and_clean(input.table.columns[j])]),
                 input.table.rows, year)

(***************************************************************************)
(* load_and_transform_multi                                                *)
(***************************************************************************)
\* A merge that keeps the last frame only; the lengths of C7 tell it from
\* concat.
last_frame_only(fr) == IF fr = <<>> THEN <<>> ELSE fr[Len(fr)]

RECURSIVE concat(_)
\* pd.concat(frames, ignore_index=True)
concat(fr) == IF fr = <<>> THEN <<>> ELSE Head(fr) \o concat(Tail(fr))

\* The merged frame left in the order of the inputs; the order of C3 tells
\* it from sort_by_date.
input_order(df) == df

\* line 196: sort_values(["tipe_kendaraan", "tanggal"])
sort_by_date(df) ==
    SortByKey(df, Tuple([k \in 1..Len(df) |->
                    CatRank(df[k].tipe_kendaraan) * 100000 + DateKey(df[k].tanggal)]))

merged(ny, fr) ==
    Ok([norm_years |-> ny, frames |-> fr, df_all |-> sort_by_date(concat(fr))])

\* lines 190-197: the first load that raises ends the call
merge_loaded(ny, loaded, failed) ==
    IF failed # {} THEN loaded[Min(failed)]
    ELSE merged(ny, Tuple([i \in 1..Len(loaded) |-> loaded[i].value]))

load_each(ny, loaded) ==
    merge_loaded(ny, loaded, {i \in 1..Len(loaded) : loaded[i].kind = "error"})

load_with_years(paths, ny) ==
    IF ny.kind = "error" THEN ny
    ELSE load_each(ny.value,
            Tuple([i \in 1..Len(paths) |-> load_and_transform(paths[i], ny.value[i])]))

\* [kind, value |-> [norm_years, frames, df_all]] or the error raised.
load_and_transform_multi(paths, years, default_year) ==
    IF paths = <<>> THEN Raise("ValueError", "Daftar input kosong.", <<>>)
    ELSE load_with_years(paths,
            _normalize_years_for_inputs(Tuple([i \in 1..Len(paths) |-> paths[i].path]),
                                        years, default_year))

(***************************************************************************)
(* _fit_linear_trend, _predict_future, _month_labels_after                 *)
(***************************************************************************)
mean(v) == RDiv(RSum(v), R(Len(v)))

sum_sq_diff(v, w) == RSum(Tuple([t \in 1..Len(v) |-> RSq(RSub(v[t], w[t]))]))

sum_sq_about(v, m) == RSum(Tuple([t \in 1..Len(v) |-> RSq(RSub(v[t], m))]))

r2_of(ss_res, ss_tot) ==
    IF ss_tot.num = 0 THEN (IF ss_res.num = 0 THEN R(1) ELSE R(0))
    ELSE RSub(R(1), RDiv(ss_res, ss_tot))

\* sklearn.metrics.r2_score: 1 - SS_res / SS_tot, and for SS_tot = 0 the
\* value 1 when the fit is exact and 0 otherwise.
r2_score(y, y_hat) == r2_of(sum_sq_diff(y, y_hat), sum_sq_about(y, mean(y)))

slope(s_ty, s_tt) == IF s_tt.num = 0 THEN R(0) ELSE RDiv(s_ty, s_tt)

\* the least-squares slope of y over t = 1..n, 0 when t has no variance
ols_coef(y, t_mean, y_mean) ==
    slope(RSum(Tuple([t \in 1..Len(y) |-> RMul(RSub(R(t), t_mean), RSub(y[t], y_mean))])),
          RSum(Tuple([t \in 1..Len(y) |-> RSq(RSub(R(t), t_mean))])))

\* lines 209-211
fit_result(y, intercept, coef) ==
    << intercept, coef,
       IF Len(y) >= 2
       THEN r2_score(y, Tuple([t \in 1..Len(y) |-> RAdd(intercept, RMul(coef, R(t)))]))
       ELSE R(1) >>

ols_line(y, t_mean, y_mean, coef) ==
    fit_result(y, RSub(y_mean, RMul(coef, t_mean)), coef)

ols(y, t_mean, y_mean) == ols_line(y, t_mean, y_mean, ols_coef(y, t_mean, y_mean))

\* LinearRegression().fit(t, y) for t = 1..n: ordinary least squares.
\* Returns <<a, b, r2>>.
_fit_linear_trend(y) == ols(y, mean(Tuple([t \in 1..Len(y) |-> R(t)])), mean(y))

\* _predict_future one step short; the counts of C9 tell the two apart.
predict_one_short(a, b, n, horizon) ==
    Tuple([k \in 1..(horizon - 1) |-> RAdd(a, RMul(b, R(n + k)))])

\* a + b * t for t = n+1 .. n+horizon
_predict_future(a, b, n, horizon) ==
    Tuple([k \in 1..horizon |-> RAdd(a, RMul(b, R(n + k)))])

next_month(d) == IF d[2] + 1 > 12 THEN <<d[1] + 1, 1>> ELSE <<d[1], d[2] + 1>>

RECURSIVE labels_from(_, _)
\* the labels <<year, tag>> (printed "year-tag") of the month d and the
\* horizon - 1 months after it
labels_from(d, horizon) ==
    IF horizon <= 0 THEN <<>>
    ELSE << <<d[1], NEXT_MONTHS_MAP[d[2]]>> >> \o labels_from(next_month(d), horizon - 1)

_month_labels_after(last_date, horizon) == labels_from(next_month(last_date), horizon)

(***************************************************************************)
(* fit_trend_and_forecast                                                  *)
(***************************************************************************)
add_key(keys, c) == IF c \in Range(keys) THEN keys ELSE Append(keys, c)

\* df.groupby("tipe_kendaraan", sort=False): the categories in the order in
\* which they first appear.
RECURSIVE group_keys(_)
group_keys(df) ==
    IF df = <<>> THEN <<>>
    ELSE add_key(group_keys(SubSeq(df, 1, Len(df) - 1)), df[Len(df)].tipe_kendaraan)

group(df, tipe) ==
    Pick(df, SelectIdx(Tuple([k \in 1..Len(df) |-> df[k].tipe_kendaraan = tipe]),
                       1, Len(df)))

\* line 278: grp.sort_values("tanggal")
sort_values_tanggal(g) ==
    SortByKey(g, Tuple([k \in 1..Len(g) |-> DateKey(g[k].tanggal)]))

\* line 293: grp["tanggal"].max()
max_tanggal(grp) ==
    grp[CHOOSE k \in 1..Len(grp) :
            \A j \in 1..Len(grp) : DateKey(grp[j].tanggal) <= DateKey(grp[k].tanggal)].tanggal

\* lines 295-317
summary_row(tipe, y, abr, last_actual, preds, future_labels, horizon) ==
    [row |-> [tipe_kendaraan |-> tipe,
              n_obs |-> Len(y),
              last_month_actual |-> last_actual,
              slope_per_bulan |-> abr[2],
              intercept |-> abr[1],
              r2 |-> abr[3],
              arah_prediksi_vs_bulan_terakhir |->
                  _classify_direction(last_actual, IF preds # <<>> THEN preds[1] ELSE NaN),
              pred_next |-> Tuple([i \in 1..horizon |->
                                IF i <= Len(preds) THEN preds[i] ELSE NaN]),
              pred_next_label |-> Tuple([i \in 1..horizon |->
                                IF i <= Len(future_labels) THEN future_labels[i]
                                ELSE <<>>])],
     future_values |-> preds,
     future_labels |-> future_labels]

\* lines 288-294
forecast(tipe, y, abr, last_date, horizon) ==
    summary_row(tipe, y, abr,
                IF Len(y) > 0 THEN y[Len(y)] ELSE NaN,
                IF horizon > 0 THEN _predict_future(abr[1], abr[2], Len(y), horizon)
                ELSE <<>>,
                _month_labels_after(last_date, horizon),
                horizon)

\* fit_values with the degenerate fit through 0 instead of the mean; the
\* values of C10 tell the two apart.
fit_values_through_zero(tipe, y, last_date, horizon) ==
    forecast(tipe, y,
             IF Len(y) < 2 THEN << R(0), R(0), R(1) >> ELSE _fit_linear_trend(y),
             last_date, horizon)

\* lines 282-286
fit_values(tipe, y, last_date, horizon) ==
    forecast(tipe, y,
             IF Len(y) < 2
             THEN << (IF Len(y) > 0 THEN mean(y) ELSE R(0)), R(0), R(1) >>
             ELSE _fit_linear_trend(y),
             last_date, horizon)

fit_group(tipe, grp, horizon) ==
    fit_values(tipe, Tuple([k \in 1..Len(grp) |-> grp[k].jumlah]), max_tanggal(grp), horizon)

\* One pass of the loop of lines 277-318: the summary row of a category and
\* its entry in detail_forecasts.
fit_category(df_in, tipe, horizon) ==
    fit_group(tipe, sort_values_tanggal(group(df_in, tipe)), horizon)

\* lines 322-328: "Total" first when it is there, the others by name
summary_order(keys, hasTotal) ==
    Tuple([k \in 1..Len(keys) |->
        (IF hasTotal /\ keys[k] # "Total" THEN 100 ELSE 0) + CatRank(keys[k])])

summarize(keys, fits) ==
    IF keys = <<>> THEN Raise("KeyError", "tipe_kendaraan", <<>>)
    ELSE Ok([summary_df |->
                SortByKey(Tuple([k \in 1..Len(keys) |-> fits[k].row]),
                          summary_order(keys, "Total" \in Range(keys))),
             detail_forecasts |->
                [c \in Range(keys) |->
                    [future_values |->
                        fits[CHOOSE j \in 1..Len(keys) : keys[j] = c].future_values,
                     future_labels |->
                        fits[CHOOSE j \in 1..Len(keys) : keys[j] = c].future_labels]]])

fit_groups(df_in, keys, horizon) ==
    summarize(keys, Tuple([k \in 1..Len(keys) |-> fit_category(df_in, keys[k], horizon)]))

\* [kind, value |-> [summary_df, detail_forecasts]]; with no category at all
\* the summary frame has no column and line 322 raises KeyError.
fit_trend_and_forecast(df_in, horizon) == fit_groups(df_in, group_keys(df_in), horizon)

(***************************************************************************)
(* _sanitize_filename, plot_category                                       *)
(***************************************************************************)
\* lower-cased, runs of other characters turned into "-": on the category
\* names of the model, which are single words, the lower-cased name.
_sanitize_filename(name) ==
    CASE name = "Jawa" -> "jawa"
      [] name = "Sumatera" -> "sumatera"
      [] name = "Total" -> "total"
      [] OTHER -> "kategori"

\* What plot_category leaves on disk: the directory and the chart.
plot_category(files, tipe, out_dir) ==
    files \cup {out_dir, out_dir \o <<_sanitize_filename(tipe), ".png">>}

(***************************************************************************)
(* The calls the model explores.                                           *)
(***************************************************************************)
NameChars == {"x", "/", "0", "1", "2", "9"}

InferCalls ==
    {[fn |-> "infer_year_from_filename", path |-> p] : p \in SeqsUpTo(NameChars, MaxNameLen)}

Kai == <<"k", "a", "i">>

NormNames ==
    { Kai,
      Kai \o <<"2", "0", "2", "3">>,
      Kai \o <<"1", "9", "9", "9">>,
      <<"2", "0", "2", "4", "/">> \o Kai }

OptionalOf(S) == {<<>>} \cup {Some(x) : x \in S}

NormalizeCalls ==
    {[fn |-> "_normalize_years_for_inputs", paths |-> ps, years |-> ys, default_year |-> d] :
        ps \in SeqsUpTo(NormNames, MaxSources) \ {<<>>},
        ys \in OptionalOf(SeqsUpTo({2021, 2022}, MaxSources + 1)),
        d \in OptionalOf({2020})}

\* last_actual, and next_pred at a distance of off/200 from it: the
\* tolerance max(0.005 |last|, 10) is |last|/200 above |last| = 2000.
ClassifyLasts == {-4000, -130, 0, 130, 2001, 4000}

ClassifyOffsets ==
    {0, 1999, 2000, 2001, 2002, 3999, 4000, 4001,
     -1999, -2000, -2001, -2002, -3999, -4000, -4001}

ClassifyCalls ==
    {[fn |-> "_classify_direction", last_actual |-> l, next_pred |-> q] :
        l \in {R(v) : v \in ClassifyLasts} \cup {NaN},
        q \in {Rat(200 * v + off, 200) : v \in ClassifyLasts, off \in ClassifyOffsets}
                \cup {NaN}}

Categories == {"Jawa", "Total"}

Hundred == <<"1", "0", "0">>

LoadCells == {<<>>, <<"x">>, <<"-", "5">>, Hundred}

LoadHeaders ==
    { << <<"Kategori">> >>,
      << <<"Kategori">>, <<"Tahunan">> >>,
      << <<BOM, "Kategori">>, <<SP, "Februari", SP>>, <<"Januari">> >>,
      << <<"Kategori">>, <<"Januari">>, <<"TAHUNAN">> >>,
      << <<"Januari">>, <<"Desember">> >>,
      << <<"Kategori">>, <<"Lainnya">>, <<"Mei">> >> }

RowsOf(header, cells) ==
    {<<c>> \o rest : c \in Categories, rest \in [1..(Len(header) - 1) -> cells]}

LoadTables ==
    UNION {{[columns |-> h, rows |-> rs] : rs \in SeqsUpTo(RowsOf(h, LoadCells), 2)} :
            h \in LoadHeaders}

LoadCalls ==
    {[fn |-> "load_and_transform", input |-> [path |-> Kai, table |-> t], year |-> 2024] :
        t \in LoadTables}

RunHeader == << <<"Kategori">>, <<"Desember">>, <<"Tahunan">> >>

RunCells == {<<>>, <<"-", "5">>, Hundred}

RunTables ==
    {[columns |-> << <<"Kategori">>, <<"Tahunan">> >>, rows |-> <<>>]}
      \cup {[columns |-> RunHeader, rows |-> rs] :
              rs \in {<< <<c, v, Hundred>> >> : c \in Categories, v \in RunCells}}

RunSources ==
    {[path |-> p, table |-> t] : p \in {Kai, Kai \o <<"2", "0", "2", "3">>}, t \in RunTables}

RunCalls ==
    {[fn |-> "run", inputs |-> ins, output_dir |-> "output", horizon |-> h,
      years |-> ys, default_year |-> d] :
        ins \in SeqsUpTo(RunSources, MaxSources),
        h \in 0..MaxHorizon,
        ys \in {<<>>, Some(<<2024, 2025>>)},
        d \in OptionalOf({2022})}

(***************************************************************************)
(* The state machine.                                                      *)
(***************************************************************************)
Init ==
    /\ \/ call \in InferCalls
       \/ call \in NormalizeCalls
       \/ call \in ClassifyCalls
       \/ call \in LoadCalls
       \/ call \in RunCalls
    /\ pc = "call"
    /\ fs = {}
    /\ norm_years = <<>>
    /\ frames = <<>>
    /\ df_long = <<>>
    /\ summary_df = <<>>
    /\ detail = <<>>
    /\ plotted = 0
    /\ result = NoResult

Returns(v) ==
    /\ result' = v
    /\ pc' = IF v.kind = "error" THEN "raised" ELSE "returned"

InferYear ==
    /\ pc = "call" /\ call.fn = "infer_year_from_filename"
    /\ Returns(Ok(infer_year_from_filename(call.path)))
    /\ UNCHANGED <<call, fs, norm_years, frames, df_long, summary_df, detail, plotted>>

NormalizeYears ==
    /\ pc = "call" /\ call.fn = "_normalize_years_for_inputs"
    /\ Returns(_normalize_years_for_inputs(call.paths, call.years, call.default_year))
    /\ UNCHANGED <<call, fs, norm_years, frames, df_long, summary_df, detail, plotted>>

ClassifyDirection ==
    /\ pc = "call" /\ call.fn = "_classify_direction"
    /\ Returns(Ok(_classify_direction(call.last_actual, call.next_pred)))
    /\ UNCHANGED <<call, fs, norm_years, frames, df_long, summary_df, detail, plotted>>

LoadAndTransform ==
    /\ pc = "call" /\ call.fn = "load_and_transform"
    /\ Returns(load_and_transform(call.input, call.year))
    /\ UNCHANGED <<call, fs, norm_years, frames, df_long, summary_df, detail, plotted>>

plots_dir(output_dir) == <<output_dir, "plots">>

\* run, lines 419-421: the two os.makedirs
RunMakeDirs ==
    /\ pc = "call" /\ call.fn = "run"
    /\ fs' = fs \cup {<<call.output_dir>>, plots_dir(call.output_dir)}
    /\ pc' = "load"
    /\ UNCHANGED <<call, norm_years, frames, df_long, summary_df, detail, plotted, result>>

\* run, lines 423-425
RunLoad ==
    /\ pc = "load"
    /\ \E r \in {load_and_transform_multi(call.inputs, call.years, call.default_year)} :
           IF r.kind = "error"
           THEN /\ Returns(r)
                /\ UNCHANGED <<norm_years, frames, df_long>>
           ELSE /\ norm_years' = r.value.norm_years
                /\ frames' = r.value.frames
                /\ df_long' = r.value.df_all
                /\ pc' = "fit"
                /\ UNCHANGED result
    /\ UNCHANGED <<call, fs, summary_df, detail, plotted>>

\* run, line 426
RunFit ==
    /\ pc = "fit"
    /\ \E r \in {fit_trend_and_forecast(df_long, call.horizon)} :
           IF r.kind = "error"
           THEN /\ Returns(r)
                /\ UNCHANGED <<summary_df, detail>>
           ELSE /\ summary_df' = r.value.summary_df
                /\ detail' = r.value.detail_forecasts
                /\ pc' = "save"
                /\ UNCHANGED result
    /\ UNCHANGED <<call, fs, norm_years, frames, df_long, plotted>>

\* run, lines 429-434: the summary file
RunSave ==
    /\ pc = "save"
    /\ fs' = fs \cup {<<call.output_dir, "forecast_summary.csv">>}
    /\ pc' = "plot"
    /\ UNCHANGED <<call, norm_years, frames, df_long, summary_df, detail, plotted, result>>

\* run, lines 437-440: one pass of the chart loop
RunPlot ==
    /\ pc = "plot"
    /\ plotted < Len(group_keys(df_long))
    /\ fs' = plot_category(fs, group_keys(df_long)[plotted + 1], plots_dir(call.output_dir))
    /\ plotted' = plotted + 1
    /\ UNCHANGED <<call, pc, norm_years, frames, df_long, summary_df, detail, result>>

\* plt.savefig (line 405) raises, as it does when the file cannot be
\* written; nothing in run catches it.
RunPlotFails ==
    /\ pc = "plot"
    /\ plotted < Len(group_keys(df_long))
    /\ Returns(Raise("OSError", "savefig", <<>>))
    /\ UNCHANGED <<call, fs, norm_years, frames, df_long, summary_df, detail, plotted>>

\* run, line 442
RunReturn ==
    /\ pc = "plot"
    /\ plotted = Len(group_keys(df_long))
    /\ Returns(Ok([summary_df |-> summary_df, detail |-> detail]))
    /\ UNCHANGED <<call, fs, norm_years, frames, df_long, summary_df, detail, plotted>>

Next ==
    \/ InferYear
    \/ NormalizeYears
    \/ ClassifyDirection
    \/ LoadAndTransform
    \/ RunMakeDirs
    \/ RunLoad
    \/ RunFit
    \/ RunSave
    \/ RunPlot
    \/ RunPlotFails
    \/ RunReturn

Spec == Init /\ [][Next]_vars

(***************************************************************************)
(* Properties.  Each is stated over the calls above: what the call was     *)
(* given is in call, what it returned or raised in result, and for run     *)
(* what it left on disk in fs.                                             *)
(***************************************************************************)
CountOf(df, c) == Cardinality({k \in 1..Len(df) : df[k].tipe_kendaraan = c})

PairwiseDistinct(s) == \A i, j \in 1..Len(s) : i # j => s[i] # s[j]

\* the date d is before the date e
Before(d, e) == d[1] < e[1] \/ (d[1] = e[1] /\ d[2] < e[2])

StrictlyIncreasing(df) ==
    \A j, k \in 1..Len(df) :
        (j < k /\ df[j].tipe_kendaraan = df[k].tipe_kendaraan)
            => Before(df[j].tanggal, df[k].tanggal)

\* the cell is text pandas reads as a number
IsNumber(cell) ==
    \/ cell # <<>> /\ \A i \in 1..Len(cell) : IsDigit(cell[i])
    \/ Len(cell) >= 2 /\ cell[1] = "-" /\ \A i \in 2..Len(cell) : IsDigit(cell[i])

\* the positions <<row, column>> of the month cells of a table
MonthCells(table) ==
    {p \in (1..Len(table.rows)) \X (2..Len(table.columns)) :
        \E m \in 1..12 : _strip_bom_and_clean(table.columns[p[2]]) = <<INDO_MONTHS[m]>>}

NumericCells(table) == {p \in MonthCells(table) : IsNumber(table.rows[p[1]][p[2]])}

ValidRows(table, c) ==
    Cardinality({p \in NumericCells(table) : table.rows[p[1]][1] = c})

RECURSIVE SumValidRows(_, _)
SumValidRows(inputs, c) ==
    IF inputs = <<>> THEN 0
    ELSE ValidRows(Head(inputs).table, c) + SumValidRows(Tail(inputs), c)

\* the categories that are a row of some input table of the run
InputCategories ==
    UNION {{call.inputs[i].table.rows[r][1] : r \in 1..Len(call.inputs[i].table.rows)} :
            i \in 1..Len(call.inputs)}

\* The run got past loading: frames holds one frame per source.
Loaded == call.fn = "run" /\ frames # <<>>

\* The run got past fitting.
Fitted == call.fn = "run" /\ summary_df # <<>>

\* C1: run is all or nothing: a run that succeeds has written the summary
\* file and the chart of every category, and a run that fails, at whatever
\* stage, has created no directory, summary file or chart.
C1_AllOrNothing ==
    call.fn = "run" =>
        /\ pc = "raised" => fs = {}
        /\ pc = "returned" =>
              /\ <<call.output_dir, "forecast_summary.csv">> \in fs
              /\ \A k \in 1..Len(summary_df) :
                    plots_dir(call.output_dir)
                        \o <<_sanitize_filename(summary_df[k].tipe_kendaraan), ".png">> \in fs

\* the explicit year the caller gave for position i: the single one for
\* every position, otherwise the i-th of the list where the list has one
C2_Explicit(i) ==
    IF call.years = <<>> THEN <<>>
    ELSE IF Len(call.years[1]) = 1 THEN <<call.years[1][1]>>
    ELSE IF i <= Len(call.years[1]) THEN <<call.years[1][i]>>
    ELSE <<>>

C2_Expected(i) ==
    IF C2_Explicit(i) # <<>> THEN C2_Explicit(i)
    ELSE IF infer_year_from_filename(call.paths[i]) # <<>>
         THEN infer_year_from_filename(call.paths[i])
    ELSE call.default_year

C2_Unresolved == {i \in 1..Len(call.paths) : C2_Expected(i) = <<>>}

\* C2: _normalize_years_for_inputs gives every position its explicit year
\* when one is given for it, otherwise the year inferred from the name,
\* otherwise the fallback year, and raises an error naming the first source
\* for which none of the three yields a year.
C2_YearPrecedence ==
    (call.fn = "_normalize_years_for_inputs" /\ pc # "call") =>
        IF C2_Unresolved = {}
        THEN /\ result.kind = "value"
             /\ Len(result.value) = Len(call.paths)
             /\ \A i \in 1..Len(call.paths) : <<result.value[i]>> = C2_Expected(i)
        ELSE /\ result.kind = "error"
             /\ result.type = "ValueError"
             /\ result.source = call.paths[Min(C2_Unresolved)]

\* Two sources, the first with a year in its name and no explicit year, a
\* fallback year given: the name's year is returned, not the fallback.
C2_Witness ==
    /\ call.fn = "_normalize_years_for_inputs"
    /\ pc = "returned"
    /\ Len(call.paths) = 2
    /\ call.years = <<>>
    /\ call.default_year # <<>>
    /\ infer_year_from_filename(call.paths[1]) # <<>>
    /\ infer_year_from_filename(call.paths[2]) = <<>>
    /\ result.value = <<infer_year_from_filename(call.paths[1])[1], call.default_year[1]>>

OneRowPerCategory(table) ==
    \A r, q \in 1..Len(table.rows) : r # q => table.rows[r][1] # table.rows[q][1]

\* C3 as stated: after load_and_transform_multi over any sources and any
\* resolved years, the dates of each category are strictly increasing.
C3_StrictDates == call.fn = "run" => StrictlyIncreasing(df_long)

\* C3: when the resolved years are pairwise distinct and no table has two
\* rows of one category, the dates of each category are strictly increasing
\* after load_and_transform_multi, and so they are in what load_and_transform
\* returns for one such table.
C3_StrictDatesDistinctYears ==
    /\ (/\ Loaded
        /\ PairwiseDistinct(norm_years)
        /\ \A i \in 1..Len(call.inputs) : OneRowPerCategory(call.inputs[i].table))
            => StrictlyIncreasing(df_long)
    /\ (/\ call.fn = "load_and_transform"
        /\ pc = "returned"
        /\ OneRowPerCategory(call.input.table))
            => StrictlyIncreasing(result.value)

\* Two sources given with the later year first, one category observed in
\* both.
C3_Witness ==
    /\ Loaded
    /\ Len(norm_years) = 2
    /\ norm_years[1] > norm_years[2]
    /\ Len(df_long) = 2
    /\ df_long[1].tipe_kendaraan = df_long[2].tipe_kendaraan
    /\ df_long[1].tanggal[1] = norm_years[2]

\* 200 times the tolerance max(0.005 |last_actual|, 10), last_actual an
\* integer
C4_Tol200 ==
    IF Abs(call.last_actual.num) > 2000 THEN Abs(call.last_actual.num) ELSE 2000

C4_Expected ==
    IF call.next_pred.num * 200
          > (200 * call.last_actual.num + C4_Tol200) * call.next_pred.den
    THEN "naik"
    ELSE IF call.next_pred.num * 200
          < (200 * call.last_actual.num - C4_Tol200) * call.next_pred.den
    THEN "turun"
    ELSE "tetap"

C4_Series == <<R(100), R(110), R(120), R(130)>>

\* C4: for defined last_actual and next_pred, _classify_direction returns
\* up exactly when next_pred > last_actual + tolerance, down exactly when
\* next_pred < last_actual - tolerance and flat otherwise, the tolerance
\* being max(0.005 |last_actual|, 10); the series 100, 110, 120, 130 has
\* intercept 90, slope 10 and next value 140, which is flat against 130.
C4_DirectionByTolerance ==
    (/\ call.fn = "_classify_direction"
     /\ pc = "returned"
     /\ ~IsNaN(call.last_actual)
     /\ ~IsNaN(call.next_pred)) =>
        /\ result = Ok(C4_Expected)
        /\ (call.last_actual = R(130) /\ call.next_pred = R(140)) =>
              /\ _fit_linear_trend(C4_Series) = <<R(90), R(10), R(1)>>
              /\ _predict_future(R(90), R(10), 4, 1) = <<call.next_pred>>
              /\ result.value = "tetap"

\* next_pred exactly last_actual + tolerance, for the last value 130.
C4_Witness ==
    /\ call.fn = "_classify_direction"
    /\ pc = "returned"
    /\ call.last_actual = R(130)
    /\ call.next_pred = R(140)
    /\ result.value = "tetap"

\* the years 1900..2100 written with four digits in the name
C5_YearsInName(name) ==
    {DigitsValue(SubSeq(name, i, i + 3)) :
        i \in {j \in 1..(Len(name) - 3) : \A k \in 0..3 : IsDigit(name[j + k])}}
      \cap (MinYear..MaxYear)

\* C5: a source with no explicit year whose name holds a four-digit year
\* between 1900 and 2100 gets a year from its name: neither the fallback
\* year nor the year-resolution error for that source.
C5_NameYearWins ==
    (call.fn = "_normalize_years_for_inputs" /\ pc # "call") =>
        \A i \in 1..Len(call.paths) :
            (C2_Explicit(i) = <<>> /\ C5_YearsInName(basename(call.paths[i])) # {}) =>
                IF result.kind = "value"
                THEN result.value[i] \in C5_YearsInName(basename(call.paths[i]))
                ELSE result.source # call.paths[i]

\* the row of the summary for the category c
C6_Rows(c) == {k \in 1..Len(summary_df) : summary_df[k].tipe_kendaraan = c}

\* C6: once the sources are loaded, fitting does not fail, and the summary
\* has exactly one row for every category that is a row of an input table;
\* a category without any valid cell is there with n_obs = 0, intercept 0,
\* slope 0 and r2 = 1.
C6_EveryCategorySummarised ==
    Loaded =>
        /\ pc = "raised" => result.type = "OSError"
        /\ pc \in {"save", "plot", "returned"} =>
              \A c \in InputCategories :
                  /\ Cardinality(C6_Rows(c)) = 1
                  /\ SumValidRows(call.inputs, c) = 0 =>
                        \A k \in C6_Rows(c) :
                            /\ summary_df[k].n_obs = 0
                            /\ summary_df[k].intercept = R(0)
                            /\ summary_df[k].slope_per_bulan = R(0)
                            /\ summary_df[k].r2 = R(1)

\* C7: when the resolved years are pairwise distinct, in whatever order the
\* sources are given, each category has as many merged observations as it
\* has valid month cells over all the sources together, a source without
\* the category counting 0; they are in ascending order of date, and n_obs
\* of the category's fit is that number.
C7_MergedLength ==
    (Loaded /\ PairwiseDistinct(norm_years)) =>
        /\ \A c \in Categories : CountOf(df_long, c) = SumValidRows(call.inputs, c)
        /\ \A j, k \in 1..Len(df_long) :
              (j < k /\ df_long[j].tipe_kendaraan = df_long[k].tipe_kendaraan)
                  => ~Before(df_long[k].tanggal, df_long[j].tanggal)
        /\ \A k \in 1..Len(summary_df) :
              summary_df[k].n_obs
                  = SumValidRows(call.inputs, summary_df[k].tipe_kendaraan)

\* Two sources of distinct years given with the later year first, and a
\* category with one valid cell in each, so with a fit over two observations.
C7_Witness ==
    /\ Fitted
    /\ Len(norm_years) = 2
    /\ norm_years[1] > norm_years[2]
    /\ \E k \in 1..Len(summary_df) :
          /\ summary_df[k].n_obs = 2
          /\ ValidRows(call.inputs[1].table, summary_df[k].tipe_kendaraan) = 1
          /\ ValidRows(call.inputs[2].table, summary_df[k].tipe_kendaraan) = 1

\* C8 as stated: every observation load_and_transform returns has a
\* numeric count that is not negative.
C8_NonNegative ==
    (call.fn = "load_and_transform" /\ pc = "returned") =>
        \A k \in 1..Len(result.value) :
            /\ ~IsNaN(result.value[k].jumlah)
            /\ result.value[k].jumlah.num >= 0

\* C8: every observation load_and_transform returns has a numeric count; a
\* month cell that is missing or not a number gives no observation, and
\* every cell that is a number, a negative one included, gives one.
C8_NumericCounts ==
    (call.fn = "load_and_transform" /\ pc = "returned") =>
        /\ \A k \in 1..Len(result.value) : ~IsNaN(result.value[k].jumlah)
        /\ Len(result.value) = Cardinality(NumericCells(call.input.table))
        /\ \A p \in NumericCells(call.input.table) :
              \E k \in 1..Len(result.value) :
                  /\ result.value[k].tipe_kendaraan = call.input.table.rows[p[1]][1]
                  /\ <<result.value[k].bulan>>
                        = _strip_bom_and_clean(call.input.table.columns[p[2]])
                  /\ result.value[k].jumlah
                        = to_numeric(call.input.table.rows[p[1]][p[2]])

\* A table with a negative cell, which is kept, and a cell that is not a
\* number, which is dropped.
C8_Witness ==
    /\ call.fn = "load_and_transform"
    /\ pc = "returned"
    /\ Len(result.value) = 1
    /\ result.value[1].jumlah = R(-5)
    /\ Cardinality(MonthCells(call.input.table)) = 2

\* C9: with horizon 0 every category has no projected value and no label,
\* in the summary row and in the detail, and its direction is unknown; with
\* a horizon H >= 1 every category has exactly H projected values and H
\* labels.
C9_HorizonPoints ==
    Fitted =>
        \A k \in 1..Len(summary_df) :
            /\ Len(summary_df[k].pred_next) = call.horizon
            /\ Len(summary_df[k].pred_next_label) = call.horizon
            /\ Len(detail[summary_df[k].tipe_kendaraan].future_values) = call.horizon
            /\ Len(detail[summary_df[k].tipe_kendaraan].future_labels) = call.horizon
            /\ \A i \in 1..call.horizon :
                  /\ ~IsNaN(summary_df[k].pred_next[i])
                  /\ summary_df[k].pred_next_label[i] # <<>>
            /\ call.horizon = 0 =>
                  summary_df[k].arah_prediksi_vs_bulan_terakhir = "tidak diketahui"

\* A fit with horizon 0 of a category with two observations.
C9_Witness ==
    /\ Fitted
    /\ call.horizon = 0
    /\ \E k \in 1..Len(summary_df) :
          /\ summary_df[k].n_obs = 2
          /\ summary_df[k].pred_next = <<>>
          /\ summary_df[k].arah_prediksi_vs_bulan_terakhir = "tidak diketahui"

\* C10: a category with exactly one observation, of value v, and a horizon
\* H >= 1 has intercept v, slope 0, r2 = 1, every projected value v and
\* direction flat.
C10_SingleObservation ==
    (Fitted /\ call.horizon >= 1) =>
        \A k \in 1..Len(summary_df) : \A j \in 1..Len(df_long) :
            (/\ df_long[j].tipe_kendaraan = summary_df[k].tipe_kendaraan
             /\ CountOf(df_long, summary_df[k].tipe_kendaraan) = 1) =>
                /\ summary_df[k].intercept = df_long[j].jumlah
                /\ summary_df[k].slope_per_bulan = R(0)
                /\ summary_df[k].r2 = R(1)
                /\ \A i \in 1..call.horizon :
                      summary_df[k].pred_next[i] = df_long[j].jumlah
                /\ summary_df[k].arah_prediksi_vs_bulan_terakhir = "tetap"

\* One observation of value 100, horizon 2.
C10_Witness ==
    /\ Fitted
    /\ call.horizon = 2
    /\ Len(df_long) = 1
    /\ df_long[1].jumlah = R(100)
    /\ summary_df[1].pred_next = <<R(100), R(100)>>
    /\ summary_df[1].arah_prediksi_vs_bulan_terakhir = "tetap"

====
